---- MODULE Spec2Model ----
(***************************************************************************)
(* alx-polly: the poll server actions (createPoll, submitVote, deletePoll, *)
(* updatePoll of app/lib/actions/poll-actions.ts) run as concurrent        *)
(* requests against the polls, votes and profiles tables.  Every `await`   *)
(* on a storage call is one atomic step of a request; the steps of         *)
(* different requests interleave freely.                                   *)
(*                                                                         *)
(* A call's synchronous prefix (reading the form, validating it, reading   *)
(* the session user) touches no table and is one step, Call<Action>.       *)
(* supabase.auth.getUser() answers with the session's user or with null;   *)
(* the identity provider is taken to answer (no userError).  Every storage *)
(* call may also fail for a transient reason; a request remembers in       *)
(* `fault` that one of its storage calls did.                              *)
(*                                                                         *)
(* The schema of the tables is not part of the sources.  Whether the votes *)
(* table carries a uniqueness constraint on (poll_id, user_id) is fixed    *)
(* but unknown: votesUnique is chosen in Init and never changes.  No        *)
(* foreign key from votes to polls is declared anywhere, and none is       *)
(* modelled: the votes table accepts any poll_id.                          *)
(*                                                                         *)
(* The reads getPollById and getUserPolls have no synchronous prefix worth *)
(* a step and make one storage call: call and read are one step.           *)
(*                                                                         *)
(* The browser side (AuthProvider of app/lib/context/auth-context.tsx and  *)
(* the AdminPage component) has a specification of its own, SpecClient,    *)
(* over the same variables; in Spec the browser does nothing, in           *)
(* SpecClient the server actions are not called.                           *)
(***************************************************************************)
EXTENDS Integers, Sequences, FiniteSets, TLC

\* ------------------------------------------------------------- bounds
\* Poll ids the store hands out (1..MaxPolls), requests in flight at once,
\* and server-action calls in one behaviour, which also bounds the votes table
\* (the store starts with one poll, so three calls reach every case below).
MaxPolls == 2
NumReqs == 2
MaxCalls == 3
\* fetchAllPolls calls of the admin page in flight at once
MaxFetches == 2

\* ------------------------------------------------------------- values
NoUser == "anon"
Users == {"u1", "a1"}
Identities == Users \cup {NoUser}
PollIds == 1..MaxPolls
Reqs == 1..NumReqs
Indexes == {0, 2}

\* The user objects of the identity provider, with the role their
\* user_metadata carries; NullUser is the null user and the null session
\* (a session is modelled by the user it carries).
Roles == {"admin", "member"}
UserObjects == [id : Users, role : Roles]
NullUser == [id |-> NoUser, role |-> "none"]

\* The values the forms submit: question and the raw `options` entries.
Forms ==
  { [question |-> "Best color?", options |-> <<"Red", "Blue">>],
    [question |-> "Pick", options |-> <<"x", "", "y", " ">>],
    [question |-> "", options |-> <<"Red", "Blue">>],
    [question |-> "Best color?", options |-> <<"OnlyOne", "">>] }

\* The values of the returned `error` property.
Ok == "null"
ErrInvalid == "Please provide a question and at least two options."
ErrLoginCreate == "You must be logged in to create a poll."
ErrLoginUpdate == "You must be logged in to update a poll."
ErrLoginDelete == "You must be logged in to delete a poll."
ErrNotFoundUpdate == "Poll not found or you don't have permission to update it."
ErrNotFoundDelete == "Poll not found or you don't have permission to delete it."
ErrNotAuthUpdate == "You are not authorized to update this poll."
ErrNotAuthDelete == "You are not authorized to delete this poll."
ErrAlreadyVoted == "You have already voted on this poll."
ErrNotAuthenticated == "Not authenticated"
\* error.message of a storage error, returned verbatim by the actions
MsgUnavailable == "storage: unavailable"
MsgConflict == "storage: duplicate key value violates unique constraint"
\* error.message of the PGRST116 error of .single()
MsgNotSingle == "storage: JSON object requested, multiple (or no) rows returned"

VARIABLES polls, votes, profiles, votesUnique, nextId, req, calls

\* The browser: the state of AuthProvider (session, user, its `loading` as
\* authLoading, the effect's `mounted`, the pending getUser) and of AdminPage
\* (its `polls` as pagePolls, loading, the fetchAllPolls calls in flight, and
\* the page the browser is on; deleteLoading, 0 for null, and for every
\* handleDelete call in flight the `polls` its closure holds).
VARIABLES session, user, authLoading, mounted, getUserPending,
          pagePolls, loading, fetching, page, deleteLoading, deleting

server == <<polls, votes, profiles, votesUnique, nextId, req, calls>>

client == <<session, user, authLoading, mounted, getUserPending,
            pagePolls, loading, fetching, page, deleteLoading, deleting>>

vars == <<server, client>>

\* ------------------------------------------------------------ helpers
\* JavaScript truthiness of a string: only the empty string is falsy.
Truthy(s) == s # ""

\* FilterBoolean gone wrong: the empty entries are not discarded
FilterBoolean_Keep(s) == s

\* options.filter(Boolean)
FilterBoolean(s) == SelectSeq(s, Truthy)

\* InvalidInput gone wrong: one option is enough
InvalidInput_OneOption(question, options) == ~Truthy(question) \/ Len(options) < 1

\* !question || options.length < 2
InvalidInput(question, options) == ~Truthy(question) \/ Len(options) < 2

\* .single(): the data when the query matches exactly one row; otherwise null
\* data and the PostgREST error PGRST116 (no rows, or more than one row).
\* `data` is the set holding the row, and {} for null.
Single(rows) ==
  IF Cardinality(rows) = 1
    THEN [data |-> rows, code |-> "none"]
    ELSE [data |-> {}, code |-> "PGRST116"]

\* the row of a non-null `data`
Row(data) == CHOOSE x \in data : TRUE

\* a storage call that failed for a transient reason
Unavailable == [data |-> {}, code |-> "503"]

\* History of a request, not read by the code: whether the submitted form has
\* a non-empty question and at least two non-empty option entries.
WellFormed(f) ==
  /\ f.question # ""
  /\ Cardinality({i \in DOMAIN f.options : f.options[i] # ""}) >= 2

Idle ==
  [op |-> "none", pc |-> "idle", uid |-> NoUser, pid |-> 0, question |-> "",
   options |-> <<>>, idx |-> 0, isAdmin |-> FALSE, fault |-> FALSE,
   wellFormed |-> TRUE, result |-> "none", data |-> <<>>]

\* The action returns { error: res }; its locals are gone.
Finish(r, res) ==
  [req EXCEPT ![r] = [Idle EXCEPT !.op = req[r].op, !.pc = "done", !.uid = req[r].uid,
                                  !.pid = req[r].pid, !.wellFormed = req[r].wellFormed,
                                  !.result = res]]

InFlight(op, pc) == Cardinality({r \in Reqs : req[r].op = op /\ req[r].pc = pc})

\* ---------------------------------------------------------------- Init
\* The store already holds a poll that u1 created with the first form.
SeedPoll ==
  [id |-> 1, user_id |-> "u1", question |-> "Best color?",
   options |-> <<"Red", "Blue">>, created_at |-> 1]

\* no handleDelete call in flight for the request slot
NoHandler == [active |-> FALSE, polls |-> <<>>]

\* AuthProvider and AdminPage have mounted: getUser is called, the listener
\* subscribed.
ClientInit ==
  /\ session = NullUser
  /\ user = NullUser
  /\ authLoading = TRUE
  /\ mounted = TRUE
  /\ getUserPending = TRUE
  /\ pagePolls = <<>>
  /\ loading = TRUE
  /\ fetching = 0
  /\ page = "admin"
  /\ deleteLoading = 0
  /\ deleting = [r \in Reqs |-> NoHandler]

Init ==
  /\ ClientInit
  /\ polls = {SeedPoll}
  /\ votes = {}
  /\ profiles = [u \in Users |-> IF u = "a1" THEN "admin" ELSE "member"]
  /\ votesUnique \in BOOLEAN
  /\ nextId = 2
  /\ req = [r \in Reqs |-> Idle]
  /\ calls = 0

\* ---------------------------------------------------------- createPoll
CallCreatePoll(r) ==
  /\ req[r].pc = "idle"
  /\ calls < MaxCalls
  /\ nextId + InFlight("createPoll", "insert") <= MaxPolls
  /\ \E u \in Identities, f \in Forms :
       LET question == f.question
           options == FilterBoolean(f.options)
           started == [Idle EXCEPT !.op = "createPoll", !.uid = u,
                                   !.question = question, !.options = options,
                                   !.wellFormed = WellFormed(f)]
       IN req' = [req EXCEPT ![r] =
                    IF InvalidInput(question, options)
                      THEN [started EXCEPT !.pc = "done", !.result = ErrInvalid,
                                           !.question = "", !.options = <<>>]
                    ELSE IF u = NoUser
                      THEN [started EXCEPT !.pc = "done", !.result = ErrLoginCreate]
                    ELSE [started EXCEPT !.pc = "insert"]]
  /\ calls' = calls + 1
  /\ UNCHANGED <<polls, votes, profiles, votesUnique, nextId, client>>

\* InsertPoll gone wrong: the row is stored without its owner
InsertPoll_NoOwner(r) ==
  polls \cup {[id |-> nextId, user_id |-> NoUser, question |-> req[r].question,
               options |-> req[r].options, created_at |-> nextId]}

\* insert([{ user_id, question, options }]); the store sets id and created_at
InsertPoll(r) ==
  polls \cup {[id |-> nextId, user_id |-> req[r].uid, question |-> req[r].question,
               options |-> req[r].options, created_at |-> nextId]}

\* CreateInsert gone wrong: the insert that reports a failure has stored the row
CreateInsert_FailsAfterInsert(r) ==
  /\ req[r].op = "createPoll" /\ req[r].pc = "insert"
  /\ polls' = InsertPoll(r)
  /\ nextId' = nextId + 1
  /\ \/ req' = Finish(r, Ok)
     \/ req' = [Finish(r, MsgUnavailable) EXCEPT ![r].fault = TRUE]
  /\ UNCHANGED <<votes, profiles, votesUnique, calls, client>>

CreateInsert(r) ==
  /\ req[r].op = "createPoll" /\ req[r].pc = "insert"
  /\ \/ /\ polls' = InsertPoll(r)
        /\ nextId' = nextId + 1
        /\ req' = Finish(r, Ok)
     \/ /\ req' = [Finish(r, MsgUnavailable) EXCEPT ![r].fault = TRUE]
        /\ UNCHANGED <<polls, nextId>>
  /\ UNCHANGED <<votes, profiles, votesUnique, calls, client>>

\* ---------------------------------------------------------- updatePoll
CallUpdatePoll(r) ==
  /\ req[r].pc = "idle"
  /\ calls < MaxCalls
  /\ \E u \in Identities, p \in PollIds, f \in Forms :
       LET question == f.question
           options == FilterBoolean(f.options)
           started == [Idle EXCEPT !.op = "updatePoll", !.uid = u, !.pid = p,
                                   !.question = question, !.options = options,
                                   !.wellFormed = WellFormed(f)]
       IN req' = [req EXCEPT ![r] =
                    IF InvalidInput(question, options)
                      THEN [started EXCEPT !.pc = "done", !.result = ErrInvalid,
                                           !.question = "", !.options = <<>>]
                    ELSE IF u = NoUser
                      THEN [started EXCEPT !.pc = "done", !.result = ErrLoginUpdate]
                    ELSE [started EXCEPT !.pc = "fetch"]]
  /\ calls' = calls + 1
  /\ UNCHANGED <<polls, votes, profiles, votesUnique, nextId, client>>

\* from("polls").select("user_id").eq("id", id).single()
FetchPoll(id) == Single({p \in polls : p.id = id})

\* from('profiles').select('role').eq('user_id', uid).single()
FetchProfile(uid) == Single({[role |-> profiles[u]] : u \in {v \in Users : v = uid}})

\* IsOwner gone wrong: the caller is compared with himself
IsOwner_Self(poll, uid) == uid = uid

\* let isOwner = poll.user_id === user.id
IsOwner(poll, uid) == poll.user_id = uid

\* UpdateIsAdmin gone wrong: the role of the profile row is not compared
UpdateIsAdmin_AnyProfile(profile) == profile.code = "none" /\ profile.data # {}

\* !profileError && profile?.role === 'admin'
UpdateIsAdmin(profile) ==
  profile.code = "none" /\ profile.data # {} /\ Row(profile.data).role = "admin"

\* !(!isOwner && !isAdmin), isAdmin being looked up only for a caller who is
\* not the owner
UpdateAllows(poll, uid, profile) ==
  LET isOwner == IsOwner(poll, uid)
      isAdmin == ~isOwner /\ UpdateIsAdmin(profile)
  IN ~(~isOwner /\ ~isAdmin)

UpdFetch(r) ==
  /\ req[r].op = "updatePoll" /\ req[r].pc = "fetch"
  /\ \E poll \in {FetchPoll(req[r].pid), Unavailable} :
       req' = IF poll.code # "none" \/ poll.data = {}
                THEN [Finish(r, ErrNotFoundUpdate) EXCEPT ![r].fault = (poll = Unavailable)]
              ELSE IF IsOwner(Row(poll.data), req[r].uid)
                THEN [req EXCEPT ![r].pc = "write"]
              ELSE [req EXCEPT ![r].pc = "profile"]
  /\ UNCHANGED <<polls, votes, profiles, votesUnique, nextId, calls, client>>

UpdProfile(r) ==
  /\ req[r].op = "updatePoll" /\ req[r].pc = "profile"
  /\ \E profile \in {FetchProfile(req[r].uid), Unavailable} :
       req' = IF UpdateIsAdmin(profile)
                THEN [req EXCEPT ![r].pc = "write", ![r].isAdmin = TRUE]
              ELSE [Finish(r, ErrNotAuthUpdate) EXCEPT ![r].fault = (profile = Unavailable)]
  /\ UNCHANGED <<polls, votes, profiles, votesUnique, nextId, calls, client>>

\* update({ question, options }).eq("id", pollId), and for a caller who is not
\* an admin .eq("user_id", user.id)
UpdateMatches(r, row) ==
  /\ row.id = req[r].pid
  /\ req[r].isAdmin \/ row.user_id = req[r].uid

\* UpdateRow gone wrong: the update also makes the caller the owner
UpdateRow_TakesOwnership(r, row) ==
  [row EXCEPT !.question = req[r].question, !.options = req[r].options,
              !.user_id = req[r].uid]

UpdateRow(r, row) ==
  [row EXCEPT !.question = req[r].question, !.options = req[r].options]

\* UpdWrite gone wrong: an update that matches no row stores the poll anew
UpdWrite_Upsert(r) ==
  /\ req[r].op = "updatePoll" /\ req[r].pc = "write"
  /\ \/ /\ polls' = IF \E row \in polls : UpdateMatches(r, row)
                      THEN {IF UpdateMatches(r, row) THEN UpdateRow(r, row) ELSE row :
                              row \in polls}
                    ELSE polls \cup {[id |-> req[r].pid, user_id |-> req[r].uid,
                                      question |-> req[r].question,
                                      options |-> req[r].options,
                                      created_at |-> req[r].pid]}
        /\ req' = Finish(r, Ok)
     \/ /\ req' = [Finish(r, MsgUnavailable) EXCEPT ![r].fault = TRUE]
        /\ UNCHANGED polls
  /\ UNCHANGED <<votes, profiles, votesUnique, nextId, calls, client>>

UpdWrite(r) ==
  /\ req[r].op = "updatePoll" /\ req[r].pc = "write"
  /\ \/ /\ polls' = {IF UpdateMatches(r, row) THEN UpdateRow(r, row) ELSE row : row \in polls}
        /\ req' = Finish(r, Ok)
     \/ /\ req' = [Finish(r, MsgUnavailable) EXCEPT ![r].fault = TRUE]
        /\ UNCHANGED polls
  /\ UNCHANGED <<votes, profiles, votesUnique, nextId, calls, client>>

\* ---------------------------------------------------------- deletePoll
\* CallDeletePoll gone wrong: the caller is not required to be logged in
CallDeletePoll_NoLogin(r) ==
  /\ req[r].pc = "idle"
  /\ calls < MaxCalls
  /\ \E u \in Identities, p \in PollIds :
       req' = [req EXCEPT ![r] = [Idle EXCEPT !.op = "deletePoll", !.uid = u,
                                              !.pid = p, !.pc = "fetch"]]
  /\ calls' = calls + 1
  /\ UNCHANGED <<polls, votes, profiles, votesUnique, nextId, client>>

CallDeletePoll(r) ==
  /\ req[r].pc = "idle"
  /\ calls < MaxCalls
  /\ \E u \in Identities, p \in PollIds :
       LET started == [Idle EXCEPT !.op = "deletePoll", !.uid = u, !.pid = p]
       IN req' = [req EXCEPT ![r] =
                    IF u = NoUser
                      THEN [started EXCEPT !.pc = "done", !.result = ErrLoginDelete]
                    ELSE [started EXCEPT !.pc = "fetch"]]
  /\ calls' = calls + 1
  /\ UNCHANGED <<polls, votes, profiles, votesUnique, nextId, client>>

\* poll.user_id !== user.id
DeleteNotOwner(poll, uid) == poll.user_id # uid

\* DeleteNotAdmin gone wrong: only a failed or empty profile lookup refuses
DeleteNotAdmin_ErrorOnly(profile) == profile.code # "none" \/ profile.data = {}

\* profileError || profile?.role !== 'admin'
DeleteNotAdmin(profile) ==
  profile.code # "none" \/ profile.data = {} \/ Row(profile.data).role # "admin"

\* the poll is deleted unless the caller is not the owner and not an admin
DeleteAllows(poll, uid, profile) ==
  ~(DeleteNotOwner(poll, uid) /\ DeleteNotAdmin(profile))

DelFetch(r) ==
  /\ req[r].op = "deletePoll" /\ req[r].pc = "fetch"
  /\ \E poll \in {FetchPoll(req[r].pid), Unavailable} :
       req' = IF poll.code # "none" \/ poll.data = {}
                THEN [Finish(r, ErrNotFoundDelete) EXCEPT ![r].fault = (poll = Unavailable)]
              ELSE IF DeleteNotOwner(Row(poll.data), req[r].uid)
                THEN [req EXCEPT ![r].pc = "profile"]
              ELSE [req EXCEPT ![r].pc = "write"]
  /\ UNCHANGED <<polls, votes, profiles, votesUnique, nextId, calls, client>>

DelProfile(r) ==
  /\ req[r].op = "deletePoll" /\ req[r].pc = "profile"
  /\ \E profile \in {FetchProfile(req[r].uid), Unavailable} :
       req' = IF DeleteNotAdmin(profile)
                THEN [Finish(r, ErrNotAuthDelete) EXCEPT ![r].fault = (profile = Unavailable)]
              ELSE [req EXCEPT ![r].pc = "write", ![r].isAdmin = TRUE]
  /\ UNCHANGED <<polls, votes, profiles, votesUnique, nextId, calls, client>>

\* delete().eq("id", id)
DeleteMatches(r, row) == row.id = req[r].pid

DelWrite(r) ==
  /\ req[r].op = "deletePoll" /\ req[r].pc = "write"
  /\ \/ /\ polls' = {row \in polls : ~DeleteMatches(r, row)}
        /\ req' = Finish(r, Ok)
     \/ /\ req' = [Finish(r, MsgUnavailable) EXCEPT ![r].fault = TRUE]
        /\ UNCHANGED polls
  /\ UNCHANGED <<votes, profiles, votesUnique, nextId, calls, client>>

\* ---------------------------------------------------------- submitVote
\* ChecksPriorVote gone wrong: the duplicate check is made for every caller
ChecksPriorVote_Always(u) == TRUE

\* if (user): the duplicate check is made for an authenticated caller only
ChecksPriorVote(u) == u # NoUser

CallSubmitVote(r) ==
  /\ req[r].pc = "idle"
  /\ calls < MaxCalls
  /\ \E u \in Identities, p \in PollIds, i \in Indexes :
       LET started == [Idle EXCEPT !.op = "submitVote", !.uid = u, !.pid = p, !.idx = i]
       IN req' = [req EXCEPT ![r] =
                    IF ChecksPriorVote(u) THEN [started EXCEPT !.pc = "precheck"]
                    ELSE [started EXCEPT !.pc = "insert"]]
  /\ calls' = calls + 1
  /\ UNCHANGED <<polls, votes, profiles, votesUnique, nextId, client>>

VotesOf(p, u) == {v \in votes : v.poll_id = p /\ v.user_id = u}

\* from("votes").select("id").eq("poll_id", pollId).eq("user_id", user.id).single()
FetchVote(p, u) == Single(VotesOf(p, u))

VotePrecheck(r) ==
  /\ req[r].op = "submitVote" /\ req[r].pc = "precheck"
  /\ \E vote \in {FetchVote(req[r].pid, req[r].uid), Unavailable} :
       req' = IF vote.data # {}
                THEN Finish(r, ErrAlreadyVoted)
              ELSE IF vote.code # "none" /\ vote.code # "PGRST116"
                THEN [Finish(r, MsgUnavailable) EXCEPT ![r].fault = TRUE]
              ELSE [req EXCEPT ![r].pc = "insert"]
  /\ UNCHANGED <<polls, votes, profiles, votesUnique, nextId, calls, client>>

\* insert([{ poll_id, user_id, option_index }]).  The table is a multiset of
\* rows: `n` tells equal rows apart.
NewVote(r) ==
  [poll_id |-> req[r].pid, user_id |-> req[r].uid, option_index |-> req[r].idx,
   n |-> 1 + Cardinality({v \in votes : /\ v.poll_id = req[r].pid
                                        /\ v.user_id = req[r].uid
                                        /\ v.option_index = req[r].idx})]

\* A uniqueness constraint on (poll_id, user_id), where the votes table has one,
\* rejects a second row of a voter; rows with a null user_id never collide.
ViolatesUnique(r) ==
  votesUnique /\ req[r].uid # NoUser /\ VotesOf(req[r].pid, req[r].uid) # {}

VoteInsert(r) ==
  /\ req[r].op = "submitVote" /\ req[r].pc = "insert"
  /\ \/ /\ ~ViolatesUnique(r)
        /\ votes' = votes \cup {NewVote(r)}
        /\ req' = Finish(r, Ok)
     \/ /\ ViolatesUnique(r)
        /\ req' = Finish(r, MsgConflict)
        /\ UNCHANGED votes
     \/ /\ req' = [Finish(r, MsgUnavailable) EXCEPT ![r].fault = TRUE]
        /\ UNCHANGED votes
  /\ UNCHANGED <<polls, profiles, votesUnique, nextId, calls, client>>

\* --------------------------------------------------------- getPollById
\* GetPollById gone wrong: the poll the store held at first is answered from a
\* copy, whatever the store holds now
GetPollById_Cached(r) ==
  /\ req[r].pc = "idle"
  /\ calls < MaxCalls
  /\ \E p \in PollIds :
       req' = [req EXCEPT ![r] =
                 IF p = SeedPoll.id
                   THEN [Idle EXCEPT !.op = "getPollById", !.pid = p, !.pc = "done",
                                     !.result = Ok, !.data = <<SeedPoll>>]
                 ELSE [Idle EXCEPT !.op = "getPollById", !.pid = p, !.pc = "done",
                                   !.result = MsgNotSingle]]
  /\ calls' = calls + 1
  /\ UNCHANGED <<polls, votes, profiles, votesUnique, nextId, client>>

\* The action has no synchronous prefix and one storage call: the call and
\* its read are one step.  `data` is the returned poll, <<>> for null.
\* from("polls").select("*").eq("id", id).single()
GetPollById(r) ==
  /\ req[r].pc = "idle"
  /\ calls < MaxCalls
  /\ \E p \in PollIds :
       \E poll \in {FetchPoll(p), Unavailable} :
         LET started == [Idle EXCEPT !.op = "getPollById", !.pid = p, !.pc = "done"]
         IN req' = [req EXCEPT ![r] =
                      IF poll.code # "none"
                        THEN [started EXCEPT
                                !.result = IF poll = Unavailable THEN MsgUnavailable
                                           ELSE MsgNotSingle,
                                !.fault = (poll = Unavailable)]
                      ELSE [started EXCEPT !.result = Ok, !.data = <<Row(poll.data)>>]]
  /\ calls' = calls + 1
  /\ UNCHANGED <<polls, votes, profiles, votesUnique, nextId, client>>

\* -------------------------------------------------------- getUserPolls
\* .order("created_at", { ascending: false })
RECURSIVE OrderByCreatedAtDesc(_)
OrderByCreatedAtDesc(rows) ==
  IF rows = {} THEN <<>>
  ELSE LET newest == CHOOSE x \in rows : \A y \in rows : y.created_at <= x.created_at
       IN <<newest>> \o OrderByCreatedAtDesc(rows \ {newest})

\* SelectUserPolls gone wrong: the rows are not filtered by their owner
SelectUserPolls_All(uid) == OrderByCreatedAtDesc(polls)

\* from("polls").select("*").eq("user_id", uid).order("created_at", ...)
SelectUserPolls(uid) == OrderByCreatedAtDesc({p \in polls : p.user_id = uid})

\* The session's user is read and one storage call made: one step.  `data`
\* is the returned `polls` array.
GetUserPolls(r) ==
  /\ req[r].pc = "idle"
  /\ calls < MaxCalls
  /\ \E u \in Identities :
       LET started == [Idle EXCEPT !.op = "getUserPolls", !.uid = u, !.pc = "done"]
       IN \/ /\ u = NoUser
             /\ req' = [req EXCEPT ![r] = [started EXCEPT !.result = ErrNotAuthenticated]]
          \/ /\ u # NoUser
             /\ req' = [req EXCEPT ![r] =
                         [started EXCEPT !.result = Ok, !.data = SelectUserPolls(u)]]
          \/ /\ u # NoUser
             /\ req' = [req EXCEPT ![r] =
                         [started EXCEPT !.result = MsgUnavailable, !.fault = TRUE]]
  /\ calls' = calls + 1
  /\ UNCHANGED <<polls, votes, profiles, votesUnique, nextId, client>>

\* The caller has received the returned object; the request is over.
Return(r) ==
  /\ req[r].pc = "done"
  /\ req' = [req EXCEPT ![r] = Idle]
  /\ UNCHANGED <<polls, votes, profiles, votesUnique, nextId, calls, client>>

Next ==
  \E r \in Reqs :
    \/ CallCreatePoll(r)
    \/ CreateInsert(r)
    \/ CallUpdatePoll(r)
    \/ UpdFetch(r)
    \/ UpdProfile(r)
    \/ UpdWrite(r)
    \/ CallDeletePoll(r)
    \/ DelFetch(r)
    \/ DelProfile(r)
    \/ DelWrite(r)
    \/ CallSubmitVote(r)
    \/ VotePrecheck(r)
    \/ VoteInsert(r)
    \/ GetPollById(r)
    \/ GetUserPolls(r)
    \/ Return(r)

Spec == Init /\ [][Next]_vars

\* =============================================================== browser
\* AuthProvider (app/lib/context/auth-context.tsx) and AdminPage, the page of
\* all polls.  Each callback (the resolution of getUser, an auth state change,
\* the unmount, the resolution of fetchAllPolls) is one step.  A callback that
\* sets the context's state makes React render AdminPage anew and run its
\* effect before anything else is processed: render and effect are part of
\* that step.  In Init the effect has run once, while the context was
\* loading.  redirect('/dashboard') leaves the page.
\* The store holds a second poll, of a1.
SecondPoll ==
  [id |-> 2, user_id |-> "a1", question |-> "Pick",
   options |-> <<"x", "y", " ">>, created_at |-> 2]

InitClient ==
  /\ ClientInit
  /\ polls = {SeedPoll, SecondPoll}
  /\ votes = {}
  /\ profiles = [u \in Users |-> IF u = "a1" THEN "admin" ELSE "member"]
  /\ votesUnique = TRUE
  /\ nextId = 3
  /\ req = [r \in Reqs |-> Idle]
  /\ calls = 0

\* The effect's dependencies [user, authLoading] are compared by identity:
\* every user object that is set is a new one.
DepsChanged(newUser, newLoading) ==
  newUser # NullUser \/ newUser # user \/ newLoading # authLoading

\* IsAdminUser gone wrong: every signed-in user counts as an admin
IsAdminUser_AnyUser(u) == u # NullUser

\* !(!user || user.user_metadata.role !== 'admin')
IsAdminUser(u) == u # NullUser /\ u.role = "admin"

\* useEffect(() => { if (!authLoading) { if (!user || ...role !== 'admin')
\* redirect('/dashboard'); else fetchAllPolls() } }, [user, authLoading]),
\* run after a render with the context's new user and loading.
AdminEffect(newUser, newLoading) ==
  IF page # "admin" \/ ~DepsChanged(newUser, newLoading) \/ newLoading
    THEN UNCHANGED <<page, fetching>>
  ELSE IF ~IsAdminUser(newUser)
    THEN page' = "dashboard" /\ UNCHANGED fetching
  ELSE fetching < MaxFetches /\ fetching' = fetching + 1 /\ UNCHANGED page

\* const { data, error } = await supabase.auth.getUser(); if (mounted) { ... }
\* The answer is the provider's user at some moment since the call.
GetUserResolved ==
  /\ getUserPending
  /\ getUserPending' = FALSE
  /\ \E data \in UserObjects \cup {NullUser} :
       IF mounted
         THEN /\ user' = data
              /\ session' = NullUser
              /\ authLoading' = FALSE
              /\ AdminEffect(data, FALSE)
         ELSE UNCHANGED <<user, session, authLoading, page, fetching>>
  /\ UNCHANGED <<mounted, pagePolls, loading, deleteLoading, deleting, server>>

\* OnAuthStateChange gone wrong: the event also ends the loading
OnAuthStateChange_EndsLoading ==
  /\ mounted
  /\ \E s \in UserObjects \cup {NullUser} :
       /\ session' = s
       /\ user' = s
       /\ authLoading' = FALSE
       /\ AdminEffect(s, FALSE)
  /\ UNCHANGED <<mounted, getUserPending, pagePolls, loading,
                 deleteLoading, deleting, server>>

\* onAuthStateChange((_event, session) => { setSession(session);
\* setUser(session?.user ?? null) })
OnAuthStateChange ==
  /\ mounted
  /\ \E s \in UserObjects \cup {NullUser} :
       /\ session' = s
       /\ user' = s
       /\ AdminEffect(s, authLoading)
  /\ UNCHANGED <<authLoading, mounted, getUserPending, pagePolls, loading,
                 deleteLoading, deleting, server>>

\* return () => { mounted = false; authListener.subscription.unsubscribe() }
\* The provider's children are unmounted with it.
Unmount ==
  /\ mounted
  /\ mounted' = FALSE
  /\ page' = "closed"
  /\ UNCHANGED <<session, user, authLoading, getUserPending, pagePolls, loading,
                 fetching, deleteLoading, deleting, server>>

\* from("polls").select("*").order("created_at", { ascending: false })
SelectAllPolls == OrderByCreatedAtDesc(polls)

\* fetchAllPolls after its await: if (!error && data) setPolls(data);
\* setLoading(false).  Setting the state of a page that was left does nothing.
FetchAllPollsResolved ==
  /\ fetching > 0
  /\ fetching' = fetching - 1
  /\ \E failed \in BOOLEAN :
       IF page = "admin"
         THEN /\ pagePolls' = IF failed THEN pagePolls ELSE SelectAllPolls
              /\ loading' = FALSE
         ELSE UNCHANGED <<pagePolls, loading>>
  /\ UNCHANGED <<session, user, authLoading, mounted, getUserPending, page,
                 deleteLoading, deleting, server>>

\* AdminPage renders the list, not "Loading all polls...".
ListShown == page = "admin" /\ ~loading /\ ~authLoading

\* handleDelete up to its await: a click on the Delete button of a shown poll
\* (disabled while deleteLoading is that poll's id) sets deleteLoading and
\* calls the server action deletePoll, which reads its user from the
\* request's session.  The handler keeps the `polls` of the render it was
\* made in.
HandleDelete(r) ==
  /\ ListShown
  /\ req[r].pc = "idle" /\ ~deleting[r].active
  /\ calls < MaxCalls
  /\ \E i \in DOMAIN pagePolls, u \in Identities :
       LET pollId == pagePolls[i].id
           started == [Idle EXCEPT !.op = "deletePoll", !.uid = u, !.pid = pollId]
       IN /\ deleteLoading # pollId
          /\ deleteLoading' = pollId
          /\ deleting' = [deleting EXCEPT ![r] = [active |-> TRUE, polls |-> pagePolls]]
          /\ req' = [req EXCEPT ![r] =
                       IF u = NoUser
                         THEN [started EXCEPT !.pc = "done", !.result = ErrLoginDelete]
                       ELSE [started EXCEPT !.pc = "fetch"]]
  /\ calls' = calls + 1
  /\ UNCHANGED <<polls, votes, profiles, votesUnique, nextId>>
  /\ UNCHANGED <<session, user, authLoading, mounted, getUserPending, pagePolls,
                 loading, fetching, page>>

\* polls.filter((poll) => poll.id !== pollId)
WithoutPoll(list, pollId) == SelectSeq(list, LAMBDA poll : poll.id # pollId)

\* handleDelete after its await: if (!result.error) setPolls(polls.filter(...));
\* setDeleteLoading(null), `polls` being the list the handler has kept.
HandleDeleteResumed(r) ==
  /\ deleting[r].active
  /\ req[r].op = "deletePoll" /\ req[r].pc = "done"
  /\ req' = [req EXCEPT ![r] = Idle]
  /\ deleting' = [deleting EXCEPT ![r] = NoHandler]
  /\ IF page = "admin"
       THEN /\ pagePolls' = IF req[r].result = Ok
                              THEN WithoutPoll(deleting[r].polls, req[r].pid)
                            ELSE pagePolls
            /\ deleteLoading' = 0
     ELSE UNCHANGED <<pagePolls, deleteLoading>>
  /\ UNCHANGED <<polls, votes, profiles, votesUnique, nextId, calls>>
  /\ UNCHANGED <<session, user, authLoading, mounted, getUserPending, loading,
                 fetching, page>>

\* The steps of the browser, and of the deletePoll calls it has made.
NextClient ==
  \/ GetUserResolved
  \/ OnAuthStateChange
  \/ Unmount
  \/ FetchAllPollsResolved
  \/ \E r \in Reqs :
       \/ HandleDelete(r)
       \/ DelFetch(r)
       \/ DelProfile(r)
       \/ DelWrite(r)
       \/ HandleDeleteResumed(r)

SpecClient == InitClient /\ [][NextClient]_vars

\* The same, with the call of getUser answered in the end: the promise made at
\* mount is settled, with a user or with none.
SpecClientLive == SpecClient /\ WF_vars(GetUserResolved)

\* =============================================================== claims
\* The spec's rule canWrite / canDelete, read off the stored rows.
Authorized(u, row) == row.user_id = u \/ profiles[u] = "admin"

PollsWithId(id) == {row \in polls : row.id = id}

\* Request r takes a step of operation op from program point pc.
StepAt(r, op, pc) == req[r].op = op /\ req[r].pc = pc /\ req'[r] # req[r]

\* --------------------------------------------------------------- C1
\* C1: for every poll id and every present voter, whatever the interleaving of
\* that voter's submitVote calls, the votes table holds at most one row with
\* that (poll_id, user_id) pair.
C1_AtMostOneVotePerVoter ==
  \A p \in PollIds, u \in Users : Cardinality(VotesOf(p, u)) <= 1

\* --------------------------------------------------------------- C2
\* The step in which updatePoll decides for the caller, and against him.
UpdAllowed(r) ==
  /\ req[r].op = "updatePoll" /\ req[r].pc \in {"fetch", "profile"}
  /\ req'[r].pc = "write"
UpdDenied(r) ==
  /\ req[r].op = "updatePoll" /\ req[r].pc \in {"fetch", "profile"}
  /\ req'[r].pc = "done" /\ req'[r].result = ErrNotAuthUpdate /\ ~req'[r].fault

\* C2: updatePoll by a present identity on an existing poll with valid input
\* goes on to its write exactly when the caller owns the poll or is an admin
\* (either condition suffices, both together too); the write then stores the
\* submitted question and options, and no step of any request changes a poll's
\* question or options except such a write by the owner or an admin.
C2_UpdateIffOwnerOrAdmin ==
  [][/\ \A r \in Reqs :
       /\ UpdAllowed(r) =>
            \A row \in PollsWithId(req[r].pid) : Authorized(req[r].uid, row)
       /\ UpdDenied(r) =>
            \A row \in PollsWithId(req[r].pid) : ~Authorized(req[r].uid, row)
       /\ (StepAt(r, "updatePoll", "fetch") /\ ~req'[r].fault) =>
            \A row \in PollsWithId(req[r].pid) :
              Authorized(req[r].uid, row) => req'[r].pc \in {"write", "profile"}
       /\ (StepAt(r, "updatePoll", "write") /\ req'[r].result = Ok) =>
            \A row \in PollsWithId(req[r].pid) :
              /\ Authorized(req[r].uid, row)
              /\ [row EXCEPT !.question = req[r].question,
                              !.options = req[r].options] \in polls'
     /\ \A row \in polls : \A new \in polls' :
          (new.id = row.id /\ new # row)
          => \E r \in Reqs :
               /\ StepAt(r, "updatePoll", "write") /\ req[r].pid = row.id
               /\ Authorized(req[r].uid, row)
  ]_vars

\* An admin who also owns the poll has updated it.
C2_Witness ==
  \E r \in Reqs : \E row \in polls :
    /\ req[r].op = "updatePoll" /\ req[r].pc = "done" /\ req[r].result = Ok
    /\ req[r].uid = "a1" /\ row.id = req[r].pid
    /\ row.user_id = "a1" /\ profiles["a1"] = "admin"
    /\ row.question = "Pick"

\* --------------------------------------------------------------- C3
DelAllowed(r) ==
  /\ req[r].op = "deletePoll" /\ req[r].pc \in {"fetch", "profile"}
  /\ req'[r].pc = "write"
DelDenied(r) ==
  /\ req[r].op = "deletePoll" /\ req[r].pc \in {"fetch", "profile"}
  /\ req'[r].pc = "done" /\ req'[r].result = ErrNotAuthDelete /\ ~req'[r].fault

\* C3: deletePoll goes on to its delete exactly when the caller owns the poll
\* or is an admin, the delete then removes the poll, no other step removes a
\* poll, and for every identity, stored poll and outcome of the profile lookup
\* deletePoll decides as updatePoll does.
C3_DeleteSameRuleAsUpdate ==
  /\ [](\A u \in Users : \A row \in polls :
          \A profile \in {FetchProfile(u), Unavailable} :
            /\ DeleteAllows(row, u, profile) = UpdateAllows(row, u, profile)
            /\ profile # Unavailable =>
                 (DeleteAllows(row, u, profile) <=> Authorized(u, row)))
  /\ [][\A r \in Reqs :
         /\ DelAllowed(r) =>
              \A row \in PollsWithId(req[r].pid) : Authorized(req[r].uid, row)
         /\ DelDenied(r) =>
              \A row \in PollsWithId(req[r].pid) : ~Authorized(req[r].uid, row)
         /\ (StepAt(r, "deletePoll", "fetch") /\ ~req'[r].fault) =>
              \A row \in PollsWithId(req[r].pid) :
                Authorized(req[r].uid, row) => req'[r].pc \in {"write", "profile"}
         /\ (StepAt(r, "deletePoll", "write") /\ req'[r].result = Ok) =>
              /\ \A row \in PollsWithId(req[r].pid) : Authorized(req[r].uid, row)
              /\ \A new \in polls' : new.id # req[r].pid
         /\ (~StepAt(r, "deletePoll", "write") /\ req'[r] # req[r]) =>
              \A row \in polls : \E new \in polls' : new.id = row.id
    ]_vars

\* An admin has deleted the poll of another user.
C3_Witness ==
  \E r \in Reqs :
    /\ req[r].op = "deletePoll" /\ req[r].pc = "done" /\ req[r].result = Ok
    /\ req[r].uid = "a1" /\ req[r].pid = SeedPoll.id /\ SeedPoll.user_id = "u1"
    /\ PollsWithId(SeedPoll.id) = {}

\* --------------------------------------------------------------- C4
InRange(i, row) == 0 <= i /\ i < Len(row.options)

\* C4: on an existing poll with n options, a submitVote of a caller with no
\* prior vote on it succeeds and inserts its Vote exactly when
\* 0 <= optionIndex < n (storage failures apart); an out-of-range index is
\* rejected and nothing is stored.
C4_VoteIffInRange ==
  [][\A r \in Reqs :
       (/\ StepAt(r, "submitVote", "insert")
        /\ VotesOf(req[r].pid, req[r].uid) = {}
        /\ ~req'[r].fault)
       => \A row \in PollsWithId(req[r].pid) :
            (req'[r].result = Ok /\ votes' # votes) <=> InRange(req[r].idx, row)
  ]_vars

\* --------------------------------------------------------------- C5
\* C5: when the votes table already holds a Vote of a present identity U on
\* poll P, the duplicate check of a submitVote by U on P ends the call with
\* "You have already voted on this poll." (storage failures apart) and the
\* call inserts nothing.
C5_SecondVoteIsDuplicate ==
  [][\A r \in Reqs :
       (/\ StepAt(r, "submitVote", "precheck")
        /\ req[r].uid # NoUser
        /\ PollsWithId(req[r].pid) # {}
        /\ VotesOf(req[r].pid, req[r].uid) # {}
        /\ ~req'[r].fault)
       => /\ req'[r].pc = "done" /\ req'[r].result = ErrAlreadyVoted
          /\ votes' = votes
  ]_vars

\* --------------------------------------------------------------- C6
\* C6: a submitVote of an anonymous caller is never put through the duplicate
\* check and never ends as a duplicate or a conflict: whatever anonymous Votes
\* the poll already has, its insert adds exactly one Vote with no voter
\* (storage failures apart).
C6_AnonymousVotesNotDeduplicated ==
  /\ [](\A r \in Reqs :
          (req[r].op = "submitVote" /\ req[r].uid = NoUser)
          => /\ req[r].pc \in {"insert", "done"}
             /\ req[r].pc = "done" => req[r].result \in {Ok, MsgUnavailable}
             /\ (req[r].pc = "done" /\ ~req[r].fault) => req[r].result = Ok)
  /\ [][\A r \in Reqs :
         (/\ StepAt(r, "submitVote", "insert")
          /\ req[r].uid = NoUser
          /\ ~req'[r].fault)
         => /\ req'[r].result = Ok
            /\ votes \subseteq votes'
            /\ Cardinality(votes') = Cardinality(votes) + 1
            /\ \A v \in votes' \ votes :
                 /\ v.user_id = NoUser /\ v.poll_id = req[r].pid
                 /\ v.option_index = req[r].idx
    ]_vars

\* Two anonymous Votes on the same existing poll are stored, while the votes
\* table enforces uniqueness per voter.
C6_Witness ==
  /\ votesUnique
  /\ \E r \in Reqs : \E row \in polls :
       /\ req[r].op = "submitVote" /\ req[r].pc = "done" /\ req[r].result = Ok
       /\ req[r].uid = NoUser /\ req[r].pid = row.id
       /\ Cardinality(VotesOf(row.id, NoUser)) >= 2
       /\ \A v \in VotesOf(row.id, NoUser) : InRange(v.option_index, row)

\* --------------------------------------------------------------- C7
\* C7: every stored poll has a non-empty question and at least two options,
\* none of them empty; a createPoll or updatePoll whose form has an empty
\* question or fewer than two non-empty options ends with "Please provide a
\* question and at least two options." (and has written nothing: it ends
\* before its first storage call).
C7_StoredPollsWellFormed ==
  /\ \A row \in polls :
       /\ row.question # ""
       /\ Len(row.options) >= 2
       /\ \A i \in DOMAIN row.options : row.options[i] # ""
  /\ \A r \in Reqs :
       (req[r].op \in {"createPoll", "updatePoll"} /\ ~req[r].wellFormed)
       => req[r].pc = "done" /\ req[r].result = ErrInvalid /\ ~req[r].fault

\* A poll was stored from the form with an empty entry among its options, the
\* empty entry discarded; another form was refused.
C7_Witness ==
  /\ \E row \in polls :
       row.question = "Pick" /\ row.options = <<"x", "y", " ">>
  /\ \E r \in Reqs :
       /\ req[r].op \in {"createPoll", "updatePoll"} /\ ~req[r].wellFormed
       /\ req[r].result = ErrInvalid

\* --------------------------------------------------------------- C8
\* A step of an updatePoll request, its call included.
UpdStep(r) == req'[r] # req[r] /\ req'[r].op = "updatePoll"

\* C8 as stated: an updatePoll by a present identity that is neither the owner
\* of the stored poll nor an admin ends, whatever its form, with "You are not
\* authorized to update this poll." (storage failures apart) and no step of it
\* changes the polls table.
C8_ForbiddenWhateverTheForm ==
  [][\A r \in Reqs :
       (/\ UpdStep(r)
        /\ req'[r].uid # NoUser
        /\ \E row \in PollsWithId(req'[r].pid) : ~Authorized(req'[r].uid, row))
       => /\ polls' = polls
          /\ (req'[r].pc = "done" /\ ~req'[r].fault)
               => req'[r].result = ErrNotAuthUpdate
  ]_vars

\* C8 amended: no step of an updatePoll by a present identity that is neither
\* the owner of the stored poll nor an admin changes the polls table or
\* reaches the write; with a valid form the call ends with "You are not
\* authorized to update this poll." (storage failures apart), with a form
\* that is not valid it ends with "Please provide a question and at least two
\* options.".
C8_ForbiddenUpdateChangesNothing ==
  [][\A r \in Reqs :
       (/\ UpdStep(r)
        /\ req'[r].uid # NoUser
        /\ \E row \in PollsWithId(req'[r].pid) : ~Authorized(req'[r].uid, row))
       => /\ polls' = polls
          /\ req'[r].pc # "write"
          /\ (req'[r].pc = "done" /\ req'[r].wellFormed /\ ~req'[r].fault)
               => req'[r].result = ErrNotAuthUpdate
          /\ (req'[r].pc = "done" /\ ~req'[r].wellFormed)
               => req'[r].result = ErrInvalid
  ]_vars

\* u1, no admin, was refused the update of a poll of a1, which is as created.
C8_Witness ==
  \E r \in Reqs : \E row \in polls :
    /\ req[r].op = "updatePoll" /\ req[r].pc = "done"
    /\ req[r].result = ErrNotAuthUpdate /\ ~req[r].fault
    /\ req[r].uid = "u1" /\ profiles["u1"] # "admin"
    /\ row.id = req[r].pid /\ row.user_id = "a1"

\* --------------------------------------------------------------- C9
\* C9 as stated: whether or not the submitted form is valid, an updatePoll by
\* a present identity on a poll id that never existed ends with "Poll not
\* found ...", and one by a caller who is neither owner nor admin of the
\* stored poll ends with "You are not authorized ..." (or, the poll not yet
\* stored at the fetch or the fetch failing, with "Poll not found ...").
C9_FetchAndAuthorizeBeforeValidate ==
  \A r \in Reqs :
    (req[r].op = "updatePoll" /\ req[r].pc = "done" /\ req[r].uid # NoUser)
    => /\ req[r].pid >= nextId => req[r].result = ErrNotFoundUpdate
       /\ \A row \in PollsWithId(req[r].pid) :
            ~Authorized(req[r].uid, row)
            => req[r].result \in {ErrNotAuthUpdate, ErrNotFoundUpdate}

\* C9 amended: updatePoll validates first, then requires an identity, then
\* fetches, then decides.  A form that is not valid ends the call with
\* "Please provide ..." before any storage call; with a valid form, no
\* identity ends it with "You must be logged in ..."; with a valid form and
\* an identity, a fetch that finds no poll ends it with "Poll not found ...",
\* and a caller who is neither owner nor admin of the fetched poll is ended
\* with "You are not authorized ...".
C9_ValidateBeforeFetchAndAuthorize ==
  /\ [](\A r \in Reqs :
          (req[r].op = "updatePoll") =>
            /\ ~req[r].wellFormed => req[r].pc = "done" /\ req[r].result = ErrInvalid
            /\ (req[r].wellFormed /\ req[r].uid = NoUser)
                 => req[r].pc = "done" /\ req[r].result = ErrLoginUpdate
            /\ (req[r].pc = "done" /\ req[r].wellFormed /\ req[r].uid # NoUser
                   /\ req[r].pid >= nextId)
                 => req[r].result = ErrNotFoundUpdate)
  /\ [][\A r \in Reqs :
         /\ (StepAt(r, "updatePoll", "fetch") /\ PollsWithId(req[r].pid) = {})
              => req'[r].pc = "done" /\ req'[r].result = ErrNotFoundUpdate
         /\ (StepAt(r, "updatePoll", "fetch") /\ ~req'[r].fault)
              => \A row \in PollsWithId(req[r].pid) :
                   ~Authorized(req[r].uid, row) => req'[r].pc = "profile"
         /\ StepAt(r, "updatePoll", "profile")
              => \A row \in PollsWithId(req[r].pid) :
                   ~Authorized(req[r].uid, row)
                   => req'[r].pc = "done" /\ req'[r].result = ErrNotAuthUpdate
    ]_vars

\* An updatePoll of a present identity with a form that is not valid, on a
\* poll id that never existed, has ended with the validation error.
C9_Witness ==
  \E r \in Reqs :
    /\ req[r].op = "updatePoll" /\ req[r].pc = "done" /\ req[r].uid # NoUser
    /\ req[r].pid >= nextId /\ ~req[r].wellFormed
    /\ req[r].result = ErrInvalid

\* -------------------------------------------------------------- C10
\* C10: poll ids are unique; a step never changes the user_id or created_at
\* of the poll with a given id; and only the write of an updatePoll on that
\* id changes its question or options.
C10_IdOwnerCreatedAtImmutable ==
  /\ [](\A a \in polls : \A b \in polls : a.id = b.id => a = b)
  /\ [][\A row \in polls : \A new \in polls' :
         new.id = row.id
         => /\ new.user_id = row.user_id
            /\ new.created_at = row.created_at
            /\ new # row
                 => \E r \in Reqs :
                      /\ StepAt(r, "updatePoll", "write") /\ req[r].pid = row.id
                      /\ new.question = req[r].question
                      /\ new.options = req[r].options
    ]_vars

\* The admin a1 has updated the poll of u1: it carries the new question and
\* still its owner and creation time.
C10_Witness ==
  \E r \in Reqs : \E row \in polls :
    /\ req[r].op = "updatePoll" /\ req[r].pc = "done" /\ req[r].result = Ok
    /\ req[r].uid = "a1" /\ req[r].pid = SeedPoll.id
    /\ row.id = SeedPoll.id /\ row.question = "Pick"
    /\ row.user_id = SeedPoll.user_id /\ row.created_at = SeedPoll.created_at
    /\ SeedPoll.user_id # "a1"

\* -------------------------------------------------------------- C11
\* The id was handed out and no poll carries it: its poll was deleted.
Deleted(id) == id < nextId /\ PollsWithId(id) = {}

\* C11: a deletePoll by an admin on a stored poll of another user goes from
\* its fetch to the profile lookup, from there to the delete, and the delete
\* removes the poll and returns no error (storage failures apart); a
\* getPollById on an id without a poll returns no poll and the error of
\* .single(); and no step of any request stores a poll under the id of a
\* deleted poll.
C11_DeletedIsTerminal ==
  [][/\ \A r \in Reqs :
       /\ (/\ StepAt(r, "deletePoll", "fetch") /\ ~req'[r].fault
           /\ profiles[req[r].uid] = "admin")
            => \A row \in PollsWithId(req[r].pid) :
                 row.user_id # req[r].uid => req'[r].pc = "profile"
       /\ (/\ StepAt(r, "deletePoll", "profile") /\ ~req'[r].fault
           /\ profiles[req[r].uid] = "admin")
            => req'[r].pc = "write"
       /\ (StepAt(r, "deletePoll", "write") /\ ~req'[r].fault)
            => /\ req'[r].pc = "done" /\ req'[r].result = Ok
               /\ \A new \in polls' : new.id # req[r].pid
       /\ (/\ req[r].pc = "idle" /\ req'[r].op = "getPollById"
           /\ PollsWithId(req'[r].pid) = {} /\ ~req'[r].fault)
            => /\ req'[r].pc = "done" /\ req'[r].result = MsgNotSingle
               /\ req'[r].data = <<>>
     /\ \A id \in PollIds : Deleted(id) => Deleted(id)'
  ]_vars

\* The admin a1 has deleted the poll of u1, and a getPollById on its id has
\* returned no poll.
C11_Witness ==
  \E r, g \in Reqs :
    /\ req[r].op = "deletePoll" /\ req[r].pc = "done" /\ req[r].result = Ok
    /\ req[r].uid = "a1" /\ req[r].pid = SeedPoll.id /\ SeedPoll.user_id = "u1"
    /\ profiles["a1"] = "admin"
    /\ req[g].op = "getPollById" /\ req[g].pc = "done" /\ req[g].pid = SeedPoll.id
    /\ req[g].result = MsgNotSingle /\ req[g].data = <<>> /\ ~req[g].fault
    /\ Deleted(SeedPoll.id)

\* -------------------------------------------------------------- C12
\* The entries of a submitted options list that are not empty, in their order.
RECURSIVE NonEmptyEntries(_)
NonEmptyEntries(s) ==
  IF s = <<>> THEN <<>>
  ELSE (IF Head(s) = "" THEN <<>> ELSE <<Head(s)>>) \o NonEmptyEntries(Tail(s))

\* C12: a createPoll reaches its insert only with an identity and a valid
\* form, carrying the form's question and its non-empty option entries in
\* their order, and one that was refused for its form made no storage call;
\* an insert that returns no error adds exactly one row, under a fresh id,
\* owned by the caller, with that question and those options, and changes no
\* other row; no other step of a createPoll changes the polls table.
C12_CreateStoresSubmittedPoll ==
  /\ [](\A r \in Reqs :
          req[r].op = "createPoll" =>
            /\ req[r].pc \in {"insert", "done"}
            /\ ~req[r].wellFormed =>
                 req[r].pc = "done" /\ req[r].result = ErrInvalid /\ ~req[r].fault
            /\ req[r].pc = "insert" =>
                 /\ req[r].wellFormed /\ req[r].uid \in Users
                 /\ \E f \in Forms :
                      /\ req[r].question = f.question /\ f.question # ""
                      /\ req[r].options = NonEmptyEntries(f.options)
                      /\ Len(req[r].options) >= 2)
  /\ [][\A r \in Reqs :
         (req'[r] # req[r] /\ req'[r].op = "createPoll") =>
           IF req[r].pc = "insert" /\ req'[r].result = Ok
             THEN \E new \in polls' :
                    /\ polls' = polls \cup {new}
                    /\ \A row \in polls : row.id # new.id
                    /\ new.user_id = req[r].uid
                    /\ new.question = req[r].question
                    /\ new.options = req[r].options
           ELSE polls' = polls
    ]_vars

\* a1 has created a poll from the form with an empty entry among its options:
\* the stored row is a1's and has the other entries in their order.
C12_Witness ==
  \E r \in Reqs : \E row \in polls :
    /\ req[r].op = "createPoll" /\ req[r].pc = "done" /\ req[r].result = Ok
    /\ req[r].uid = "a1"
    /\ row.id # SeedPoll.id /\ row.user_id = "a1"
    /\ row.question = "Pick" /\ row.options = <<"x", "y", " ">>
    /\ Cardinality(polls) = 2

\* -------------------------------------------------------------- C13
\* C13: a createPoll, updatePoll or deletePoll of a caller without identity
\* has ended at its call, without a storage call, and unless its form was
\* refused with the action's "You must be logged in ..." error; a
\* getUserPolls of such a caller has returned "Not authenticated" and no
\* polls; and no step of these requests changes the polls or votes table.
C13_NoIdentityNoWrite ==
  /\ [](\A r \in Reqs :
          req[r].uid = NoUser =>
            /\ req[r].op \in {"createPoll", "updatePoll", "deletePoll"} =>
                 /\ req[r].pc = "done" /\ ~req[r].fault
                 /\ req[r].wellFormed =>
                      req[r].result =
                        CASE req[r].op = "createPoll" -> ErrLoginCreate
                          [] req[r].op = "updatePoll" -> ErrLoginUpdate
                          [] req[r].op = "deletePoll" -> ErrLoginDelete
            /\ req[r].op = "getUserPolls" =>
                 /\ req[r].pc = "done" /\ req[r].result = ErrNotAuthenticated
                 /\ req[r].data = <<>> /\ ~req[r].fault)
  /\ [][\A r \in Reqs :
         (/\ req'[r] # req[r] /\ req'[r].uid = NoUser
          /\ req'[r].op \in {"createPoll", "updatePoll", "deletePoll", "getUserPolls"})
         => polls' = polls /\ votes' = votes
    ]_vars

\* Without identity, a deletePoll on the stored poll and a createPoll with a
\* valid form were refused; the store is as it was.
C13_Witness ==
  \E d, c \in Reqs :
    /\ req[d].op = "deletePoll" /\ req[d].uid = NoUser /\ req[d].pid = SeedPoll.id
    /\ req[d].pc = "done" /\ req[d].result = ErrLoginDelete
    /\ req[c].op = "createPoll" /\ req[c].uid = NoUser /\ req[c].wellFormed
    /\ req[c].pc = "done" /\ req[c].result = ErrLoginCreate
    /\ polls = {SeedPoll} /\ nextId = 2

\* -------------------------------------------------------------- C14
\* C14: a submitVote whose insert is rejected by the uniqueness constraint on
\* (poll_id, user_id) returns what the duplicate check returns for a prior
\* vote, "You have already voted on this poll.".
C14_ConflictIsDuplicateVote ==
  [][\A r \in Reqs :
       (/\ StepAt(r, "submitVote", "insert")
        /\ ViolatesUnique(r)
        /\ ~req'[r].fault)
       => req'[r].pc = "done" /\ req'[r].result = ErrAlreadyVoted
  ]_vars

C16_UnavailableReturnedAsSuch ==
  /\ [](\A r \in Reqs :
          (req[r].op \in {"updatePoll", "deletePoll", "submitVote"} /\ req[r].fault)
          => req[r].pc = "done" /\ req[r].result = MsgUnavailable)
  /\ [][\A r \in Reqs :
         (req'[r].fault /\ ~req[r].fault) => polls' = polls /\ votes' = votes
    ]_vars

\* -------------------------------------------------------------- C17
Mutations == {"createPoll", "updatePoll", "deletePoll", "submitVote"}

\* C17: a step of a createPoll, updatePoll, deletePoll or submitVote that
\* changes the polls or votes table is the request's insert or write and ends
\* the call without error; so a call that ends with an error changed
\* nothing, in its last step or before.
C17_ErrorMeansNoWrite ==
  [][\A r \in Reqs :
       (req'[r] # req[r] /\ req'[r].op \in Mutations) =>
         /\ (polls' # polls \/ votes' # votes) =>
              /\ req[r].pc \in {"insert", "write"}
              /\ req'[r].pc = "done" /\ req'[r].result = Ok
         /\ (req'[r].pc = "done" /\ req'[r].result # Ok) =>
              polls' = polls /\ votes' = votes
         /\ req[r].pc # "done"
  ]_vars

\* A createPoll of a1 with a valid form has ended with the error of its
\* failed insert; the store holds what it held.
C17_Witness ==
  \E r \in Reqs :
    /\ req[r].op = "createPoll" /\ req[r].pc = "done" /\ req[r].uid = "a1"
    /\ req[r].wellFormed /\ req[r].fault /\ req[r].result = MsgUnavailable
    /\ polls = {SeedPoll} /\ nextId = 2 /\ votes = {}

\* -------------------------------------------------------------- C19
Elements(seq) == {seq[i] : i \in DOMAIN seq}

\* C19: a getUserPolls of a present identity whose storage call did not fail
\* returns no error and a list that holds each stored poll of the caller
\* once, no other poll, and the newer poll before the older; it changes
\* nothing in the store.
C19_OwnPollsNewestFirst ==
  [][\A r \in Reqs :
       (/\ req[r].pc = "idle" /\ req'[r].op = "getUserPolls"
        /\ req'[r].uid # NoUser /\ ~req'[r].fault)
       => LET data == req'[r].data
          IN /\ req'[r].pc = "done" /\ req'[r].result = Ok
             /\ Elements(data) = {p \in polls : p.user_id = req'[r].uid}
             /\ Len(data) = Cardinality(Elements(data))
             /\ \A i, j \in DOMAIN data :
                  i < j => data[i].created_at > data[j].created_at
             /\ polls' = polls /\ votes' = votes
  ]_vars

\* u1 owns two polls and has been given both, the newer first; a1 owns none
\* and has been given none.
C19_Witness ==
  \E r, q \in Reqs :
    /\ req[r].op = "getUserPolls" /\ req[r].pc = "done" /\ req[r].result = Ok
    /\ req[r].uid = "u1" /\ Len(req[r].data) = 2
    /\ req[r].data[2] = SeedPoll /\ req[r].data[1].created_at > SeedPoll.created_at
    /\ req[q].op = "getUserPolls" /\ req[q].pc = "done" /\ req[q].result = Ok
    /\ req[q].uid = "a1" /\ req[q].data = <<>>
    /\ Cardinality(polls) = 2

\* -------------------------------------------------------------- C20
\* What a getPollById returns is decided by the store alone.
AnswerFor(id) ==
  IF PollsWithId(id) = {} THEN [result |-> MsgNotSingle, data |-> <<>>]
  ELSE [result |-> Ok, data |-> <<CHOOSE row \in polls : row.id = id>>]

\* C20: a getPollById whose storage call did not fail returns the stored poll
\* with the id and no error, or no poll and the error of .single() when no
\* poll has the id, and changes nothing in the store; two getPollById calls
\* for one id, the only calls made so far, have returned the same.
C20_GetPollIsPureRead ==
  /\ [][\A r \in Reqs :
         (req[r].pc = "idle" /\ req'[r].op = "getPollById") =>
           /\ req'[r].pc = "done"
           /\ ~req'[r].fault =>
                /\ req'[r].result = AnswerFor(req'[r].pid).result
                /\ req'[r].data = AnswerFor(req'[r].pid).data
           /\ <<polls, votes, profiles, nextId>>' = <<polls, votes, profiles, nextId>>
    ]_vars
  /\ [](\A r, g \in Reqs :
          (/\ r # g /\ calls = 2
           /\ req[r].op = "getPollById" /\ req[r].pc = "done" /\ ~req[r].fault
           /\ req[g].op = "getPollById" /\ req[g].pc = "done" /\ ~req[g].fault
           /\ req[r].pid = req[g].pid)
          => req[r].result = req[g].result /\ req[r].data = req[g].data)

\* Two getPollById calls for the stored poll, with no other call made, have
\* both returned it.
C20_Witness ==
  \E r, g \in Reqs :
    /\ r # g /\ calls = 2
    /\ req[r].op = "getPollById" /\ req[r].pc = "done" /\ req[r].pid = SeedPoll.id
    /\ req[g].op = "getPollById" /\ req[g].pc = "done" /\ req[g].pid = SeedPoll.id
    /\ req[r].result = Ok /\ req[r].data = <<SeedPoll>> /\ req[g] = req[r]
    /\ polls = {SeedPoll}

\* -------------------------------------------------------------- C18
NotAdmin == {NullUser} \cup {o \in UserObjects : o.role # "admin"}

\* C18: a fetchAllPolls is started only by a step after which the context has
\* finished loading and its user carries the admin role; the page's list is
\* set only on the page, for such a user, either by the resolution of such a
\* fetch or by a handleDelete that leaves it rows its handler held from the
\* list shown before; while the context is loading nothing is fetched, held
\* or shown; and while the context's user is anonymous or carries no admin
\* role the page is left: it shows no list and is given none.
C18_AllPollsForAdminOnly ==
  /\ [][/\ fetching' > fetching =>
             /\ ~authLoading' /\ user' \notin NotAdmin /\ user'.role = "admin"
             /\ page = "admin" /\ page' = "admin"
        /\ pagePolls' # pagePolls =>
             /\ page = "admin" /\ ~authLoading
             /\ user \notin NotAdmin
             /\ \/ fetching' < fetching /\ pagePolls' = SelectAllPolls
                \/ \E r \in Reqs :
                     /\ deleting[r].active /\ ~deleting'[r].active
                     /\ Elements(pagePolls') \subseteq Elements(deleting[r].polls)
    ]_vars
  /\ [](authLoading => (fetching = 0 /\ pagePolls = <<>> /\ ~ListShown))
  /\ []((user \in NotAdmin /\ ~authLoading) => (page # "admin" /\ ~ListShown))

\* The admin a1 is shown both stored polls, the newer first.
C18_Witness ==
  /\ ListShown /\ fetching = 0
  /\ user = [id |-> "a1", role |-> "admin"]
  /\ pagePolls = <<SecondPoll, SeedPoll>>

\* -------------------------------------------------------------- C22
\* C22: when the write of an updatePoll returns no error, the polls table
\* then holds a poll with the given id that carries the submitted question
\* and options.
C22_UpdateSuccessMeansStored ==
  [][\A r \in Reqs :
       (StepAt(r, "updatePoll", "write") /\ req'[r].result = Ok)
       => \E row \in polls' :
            /\ row.id = req[r].pid
            /\ row.question = req[r].question
            /\ row.options = req[r].options
  ]_vars

\* -------------------------------------------------------------- C21
\* C21: a handleDelete whose deletePoll returned no error leaves the shown
\* list without its poll, and whenever no handleDelete is in flight the list
\* shown on the admin page holds no poll that has been deleted.
C21_DeletedPollsStayOffTheList ==
  /\ [][\A r \in Reqs :
          (/\ deleting[r].active /\ ~deleting'[r].active
           /\ req[r].result = Ok /\ page = "admin")
          => \A row \in Elements(pagePolls') : row.id # req[r].pid
    ]_vars
  /\ []((ListShown /\ \A r \in Reqs : ~deleting[r].active)
        => \A row \in Elements(pagePolls) : ~Deleted(row.id))

\* -------------------------------------------------------------- C23
\* C23: whoever the context holds as its user once it has loaded, the admin
\* page takes that user for an admin if and only if updatePoll and deletePoll
\* take the profile of that user for an admin's.
C23_AdminDecidedTheSameWay ==
  \A o \in UserObjects :
    (user = o /\ ~authLoading)
    => /\ IsAdminUser(o) <=> UpdateIsAdmin(FetchProfile(o.id))
       /\ IsAdminUser(o) <=> ~DeleteNotAdmin(FetchProfile(o.id))

\* -------------------------------------------------------------- C24
\* C24: when the response of getUser arrives after an auth-state-change event
\* has given the context a session, it leaves the user of that event in
\* place; and when it arrives after the provider has unmounted it changes
\* nothing of the context.
C24_GetUserKeepsNewerUser ==
  [][(getUserPending /\ ~getUserPending')
       => /\ session # NullUser => user' = user
          /\ ~mounted => UNCHANGED <<session, user, authLoading>>
  ]_vars

\* -------------------------------------------------------------- C25
\* C25: the context starts loading; its loading changes only from true to
\* false, and only by the response of getUser arriving while the provider is
\* mounted, which always ends it; a provider that stays mounted stops
\* loading in the end; and whenever the context holds a session its user is
\* the user of that session.
C25_LoadingEndsOnceWithGetUser ==
  /\ authLoading = TRUE
  /\ [][/\ authLoading' # authLoading =>
             /\ authLoading /\ ~authLoading'
             /\ getUserPending /\ ~getUserPending' /\ mounted
        /\ (getUserPending /\ ~getUserPending' /\ mounted) => ~authLoading'
    ]_vars
  /\ (authLoading /\ mounted) ~> (~authLoading \/ ~mounted)
  /\ [](session # NullUser => user = session)

\* After the response of getUser has ended the loading, a sign-in event has
\* given the mounted context a session and its user.
C25_Witness ==
  /\ mounted /\ ~authLoading /\ ~getUserPending
  /\ session \in UserObjects /\ user = session

====
